---- MODULE Spec2Model ----
(***************************************************************************)
(* Model of the variant evaluation harness of                              *)
(* openai-evals-ai-evaluator/src/main.py: validate_functions (the oracle   *)
(* build), evaluate_variations (deployment and the per-version test        *)
(* tasks), select_best_version and the tail of main.                       *)
(*                                                                         *)
(* The coroutines create_workspace and execute_function contain no await,  *)
(* so the tasks that asyncio.gather schedules run one after the other,     *)
(* each to completion, in list order.  The model steps at every call into  *)
(* the execution backend (create, execute, remove); SIGINT may arrive      *)
(* between any two steps.                                                  *)
(***************************************************************************)
EXTENDS Integers, Sequences, FiniteSets, TLC

\* Number of variations returned by generate_variations (len(variations)).
NumVariations == 1
\* Largest number of test cases generate_test_cases returns in this model.
MaxCases == 2

VARIABLES
    pc,                 \* position of main / evaluate_variations
    validator,          \* outcome of create_workspace("Validator", ...)
    test_cases,         \* validate_functions: test_cases
    reference_results,  \* validate_functions: reference_results
    baseline_ok,        \* per oracle case: the success flag execute_function returned
    validation_cases,   \* evaluate_variations: validation_cases
    workspaces,         \* outcome of the create task of every version started
    version_results,    \* test_version: version_results of every task started
    results,            \* main: results
    best,               \* main: best
    warned,             \* main: the "best version failed some tests" warning was printed
    active_workspaces,  \* module global active_workspaces
    live,               \* environments created and not successfully removed
    exec_log,           \* every execute_function call made: workspace, task, input, outcome
    teardown,           \* outcome of the removal of the Validator workspace
    interrupted,        \* a SIGINT has been delivered
    arg,                \* argument of the function applied (specifications of one function)
    ret                 \* its result

vars == <<pc, validator, test_cases, reference_results, baseline_ok,
          validation_cases, workspaces, version_results, results, best,
          warned, active_workspaces, live, exec_log, teardown, interrupted,
          arg, ret>>

----------------------------------------------------------------------------
(* Values a function under test can return, as eval() of the printed text  *)
(* yields them: ty is the Python type, w.f the numeric value (whole part   *)
(* and fraction in units of 1e-10, fractions kept below 1e-7), s is        *)
(* str(value).                                                             *)

NoneV == [ty |-> "NoneType", w |-> 0, f |-> 0, s |-> "None"]
IntV(i, str) == [ty |-> "int", w |-> i, f |-> 0, s |-> str]
ErrV == [ty |-> "str", w |-> 0, f |-> 0, s |-> "ERROR: exception"]

\* Outputs the backend produces in the evaluation runs of this model.
Values == {NoneV, IntV(1, "1"), IntV(2, "2")}
\* Execution times (time.time() differences) in ticks.
Latencies == {1, 2}

\* str(e) of an exception raised by a call into the sandbox (line 439).
TransportErrV == [ty |-> "str", w |-> 0, f |-> 0, s |-> "transport error"]

\* What the sandbox does with one test run: a call into it raises, the
\* program prints an ERROR: line, or it prints RESULT: value|time.
RawResponses ==
    {[kind |-> "transport", value |-> NoneV, time |-> 0],
     [kind |-> "error", value |-> NoneV, time |-> 0]}
    \cup {[kind |-> "result", value |-> v, time |-> t] : v \in Values, t \in Latencies}

ExecuteFunctionMutRaise(raw) ==
    IF raw.kind = "transport"
    THEN [raised |-> TRUE, success |-> FALSE, result |-> TransportErrV, time |-> 0]
    ELSE IF raw.kind = "error"
    THEN [raised |-> FALSE, success |-> FALSE, result |-> ErrV, time |-> 0]
    ELSE [raised |-> FALSE, success |-> TRUE, result |-> raw.value, time |-> raw.time]

\* execute_function: the (success, result, exec_time) tuple it returns for a
\* response of the sandbox; raised tells that it raised instead of returning.
ExecuteFunction(raw) ==
    IF raw.kind = "transport"
    THEN [raised |-> FALSE, success |-> FALSE, result |-> TransportErrV, time |-> 0]
    ELSE IF raw.kind = "error"
    THEN [raised |-> FALSE, success |-> FALSE, result |-> ErrV, time |-> 0]
    ELSE [raised |-> FALSE, success |-> TRUE, result |-> raw.value, time |-> raw.time]

Versions == 0 .. NumVariations

ValidatorName == [kind |-> "Validator", idx |-> 0]
VersionName(i) == IF i = 0 THEN [kind |-> "Original", idx |-> 0]
                  ELSE [kind |-> "Version", idx |-> i]

NoReport == [id |-> [kind |-> "none", idx |-> 0], successes |-> 0,
             total_time |-> 0, test_results |-> <<>>]

----------------------------------------------------------------------------
(* The comparator of test_version.                                         *)

\* epsilon = 1e-9, in units of 1e-10.
Epsilon == 10

IsNumeric(v) == v.ty \in {"int", "float", "bool"}

Abs(x) == IF x < 0 THEN -x ELSE x

NumericCloseMutNoAbs(a, b) == a.w < b.w \/ (a.w = b.w /\ a.f - b.f < Epsilon)

\* abs(result - expected_output) < epsilon.  Fractions are below 1e-7, so two
\* values with different whole parts differ by more than epsilon.
NumericClose(a, b) == a.w = b.w /\ Abs(a.f - b.f) < Epsilon

\* s.strip().lower() on the strings of the model.
StripLower(s) ==
    CASE s = "A " -> "a"
      [] s = " a" -> "a"
      [] s = "A"  -> "a"
      [] s = " "  -> ""
      [] OTHER    -> s

EquivalentMutStringOnly(result, expected) == result.s = expected.s

\* The type-directed comparison applied when both executions succeeded.
Equivalent(result, expected) ==
    IF result.ty = "list" /\ expected.ty = "list" THEN result = expected
    ELSE IF result.ty = "dict" /\ expected.ty = "dict" THEN result = expected
    ELSE IF result.ty = "set" /\ expected.ty = "set" THEN result = expected
    ELSE IF IsNumeric(result) /\ IsNumeric(expected) THEN NumericClose(result, expected)
    ELSE IF result.ty = "str" /\ expected.ty = "str"
         THEN StripLower(result.s) = StripLower(expected.s)
    ELSE result.s = expected.s

\* An expected failure is matched only by an ERROR: line of the program.
OutputValidMutProgramFailureOnly(success, result, expected) ==
    IF expected = NoneV THEN ~success /\ result = ErrV
    ELSE IF success THEN Equivalent(result, expected)
    ELSE FALSE

\* output_valid as computed by the if / elif / else of test_version.
OutputValid(success, result, expected) ==
    IF expected = NoneV THEN ~success
    ELSE IF success THEN Equivalent(result, expected)
    ELSE FALSE

EntrySuccessMutRaw(success, output_valid, expected) == success /\ output_valid

\* The 'success' field stored in the per-case entry.
EntrySuccess(success, output_valid, expected) ==
    IF expected # NoneV THEN success /\ output_valid ELSE output_valid

MatchedMutAlsoUnexpectedSuccess(success, output_valid, expected) ==
    \/ expected = NoneV
    \/ (expected # NoneV /\ success /\ output_valid)

\* The condition under which successes is incremented.
Matched(success, output_valid, expected) ==
    \/ (expected = NoneV /\ ~success)
    \/ (expected # NoneV /\ success /\ output_valid)

TimeAddedMutEveryCase(matched, expected, exec_time) ==
    IF expected # NoneV THEN exec_time ELSE 0

\* The amount added to total_time after a case.
TimeAdded(matched, expected, exec_time) ==
    IF matched /\ expected # NoneV THEN exec_time ELSE 0

\* One iteration of the loop of test_version: the report after the case
\* (input, expected) was executed with outcome o.
RecordCase(report, input, expected, o) ==
    LET output_valid == OutputValid(o.success, o.result, expected)
        matched == Matched(o.success, output_valid, expected)
    IN [report EXCEPT
          !.test_results = Append(@, [input |-> input,
                                      expected |-> expected,
                                      output |-> o.result,
                                      success |-> EntrySuccess(o.success, output_valid, expected),
                                      time |-> o.time]),
          !.successes = IF matched THEN @ + 1 ELSE @,
          !.total_time = @ + TimeAdded(matched, expected, o.time)]

\* Every task writes into a report under the name of the original.
NewReportMutOriginal(name) == [id |-> VersionName(0), successes |-> 0, total_time |-> 0,
                               test_results |-> <<>>]

\* version_results as test_version initialises it.
NewReport(name) == [id |-> name, successes |-> 0, total_time |-> 0,
                    test_results |-> <<>>]

----------------------------------------------------------------------------
(* main: results.sort(...) and select_best_version.                        *)

\* key=lambda x: (-x['successes'], x['total_time']), compared with <.
SortKeyLess(a, b) ==
    \/ a.successes > b.successes
    \/ (a.successes = b.successes /\ a.total_time < b.total_time)

RECURSIVE InsertSorted(_, _)
\* x goes after every element whose key is not greater (the sort is stable).
InsertSorted(x, s) ==
    IF s = <<>> THEN <<x>>
    ELSE IF SortKeyLess(x, Head(s)) THEN <<x>> \o s
    ELSE <<Head(s)>> \o InsertSorted(x, Tail(s))

RECURSIVE SortResults(_)
SortResults(s) ==
    IF s = <<>> THEN <<>>
    ELSE InsertSorted(s[Len(s)], SortResults(SubSeq(s, 1, Len(s) - 1)))

\* fully_correct = [r for r in results if r['successes'] == len(r['test_results'])]
FullyCorrect(rs) == SelectSeq(rs, LAMBDA r : r.successes = Len(r.test_results))

\* The last element with the least total_time.
MinByTimeMutLast(s) ==
    LET i == CHOOSE i \in 1 .. Len(s) :
                 /\ \A j \in 1 .. Len(s) : s[i].total_time <= s[j].total_time
                 /\ \A j \in (i + 1) .. Len(s) : s[j].total_time > s[i].total_time
    IN s[i]

\* min(seq, key=total_time): the first element with the least total_time.
MinByTime(s) ==
    LET i == CHOOSE i \in 1 .. Len(s) :
                 /\ \A j \in 1 .. Len(s) : s[i].total_time <= s[j].total_time
                 /\ \A j \in 1 .. (i - 1) : s[j].total_time > s[i].total_time
    IN s[i]

\* (successes, -total_time) tuple comparison a > b.
MaxKeyGreater(a, b) ==
    \/ a.successes > b.successes
    \/ (a.successes = b.successes /\ a.total_time < b.total_time)

\* max(seq, key=(successes, -total_time)): the first maximal element.
MaxBySuccess(s) ==
    LET i == CHOOSE i \in 1 .. Len(s) :
                 /\ \A j \in 1 .. Len(s) : ~MaxKeyGreater(s[j], s[i])
                 /\ \A j \in 1 .. (i - 1) : MaxKeyGreater(s[i], s[j])
    IN s[i]

SelectBestVersionMutFastest(rs) == MinByTime(rs)

\* key=(successes, total_time): the sign of the latency is lost.
SelectBestVersionMutSlowest(rs) ==
    IF FullyCorrect(rs) # <<>> THEN MinByTime(FullyCorrect(rs))
    ELSE LET greater(a, b) == \/ a.successes > b.successes
                              \/ (a.successes = b.successes /\ a.total_time > b.total_time)
             i == CHOOSE i \in 1 .. Len(rs) :
                      /\ \A j \in 1 .. Len(rs) : ~greater(rs[j], rs[i])
                      /\ \A j \in 1 .. (i - 1) : greater(rs[i], rs[j])
         IN rs[i]

SelectBestVersion(rs) ==
    IF FullyCorrect(rs) # <<>> THEN MinByTime(FullyCorrect(rs))
    ELSE MaxBySuccess(rs)

----------------------------------------------------------------------------
(* The run: validate_functions, evaluate_variations, the tail of main.     *)

NumVersions == NumVariations + 1

\* What create_workspace can do: return the workspace; raise in
\* client.create (nothing was created); raise while deploying the code (the
\* workspace exists and is already in active_workspaces).
CreateOutcomes == {"ok", "create_failed", "deploy_failed"}

\* generate_test_cases, reduced to the number n of cases it returns: the
\* inputs are named by their position.
GenerateTestCases(n) == [i \in 1 .. n |-> i]

\* active_workspaces after create_workspace(name, ...) ended with out.
Registered(aw, name, out) ==
    IF out = "create_failed" THEN aw ELSE Append(aw, name)

\* The environments that exist after create_workspace(name, ...) ended with out.
Created(lv, name, out) ==
    IF out = "create_failed" THEN lv ELSE lv \cup {name}

\* list.remove(x) guarded by 'if x in list'.
RemoveFrom(aw, name) == SelectSeq(aw, LAMBDA x : x # name)

\* The record of one execute_function call: the workspace it ran in, the
\* version under test (-1 for the oracle build), the input and the outcome.
LogEntry(name, task, input, o) ==
    [ws |-> name, task |-> task, input |-> input, success |-> o.success,
     result |-> o.result]

\* The version whose code create_workspace deployed into workspace name.
DeployedCode(name) == name.idx

TaskWorkspaceMutShared(v) == VersionName(0)

\* The workspace zip(workspaces, all_versions, workspace_names) hands to the
\* test task of version v.
TaskWorkspace(v) == VersionName(v)

Init ==
    /\ pc = "validate"
    /\ validator = "none"
    /\ test_cases = <<>>
    /\ reference_results = <<>>
    /\ baseline_ok = <<>>
    /\ validation_cases = <<>>
    /\ workspaces = <<>>
    /\ version_results = <<>>
    /\ results = <<>>
    /\ best = NoReport
    /\ warned = FALSE
    /\ active_workspaces = <<>>
    /\ live = {}
    /\ exec_log = <<>>
    /\ teardown = "none"
    /\ interrupted = FALSE
    /\ arg = <<>>
    /\ ret = [done |-> FALSE]

\* Where the run goes when create_workspace("Validator", ...) raised: the
\* exception leaves validate_functions and evaluate_variations and is caught
\* by main's 'except Exception'.
AfterValidatorFailureMutContinue == "create"

AfterValidatorFailure == "error"

\* validate_functions up to the first execute_function call.
ValidatorCreate(out, n) ==
    /\ pc = "validate"
    /\ validator' = out
    /\ active_workspaces' = Registered(active_workspaces, ValidatorName, out)
    /\ live' = Created(live, ValidatorName, out)
    /\ IF out = "ok"
       THEN /\ test_cases' = GenerateTestCases(n)
            /\ pc' = "oracle"
       ELSE /\ test_cases' = test_cases
            /\ pc' = AfterValidatorFailure
    /\ UNCHANGED <<reference_results, baseline_ok, validation_cases, workspaces,
                   version_results, results, best, warned, exec_log,
                   teardown, interrupted, arg, ret>>

OracleDoneMutAfterFirst(rr, tc) == Len(rr) >= 1

\* The loop 'for test_input in test_cases' of validate_functions has ended.
OracleDone(rr, tc) == Len(rr) = Len(tc)

ReferenceEntryMutErrorText(input, o) ==
    [input |-> input, expected |-> o.result]

\* The pair validate_functions appends to reference_results.
ReferenceEntry(input, o) ==
    [input |-> input, expected |-> IF o.success THEN o.result ELSE NoneV]

OracleInputMutFromEnd(rr, tc) == tc[Len(tc) - Len(rr)]

\* test_input of the next iteration of 'for test_input in test_cases'.
OracleInput(rr, tc) == tc[Len(rr) + 1]

\* One iteration of the loop of validate_functions.  An exception that
\* execute_function let through would leave validate_functions and
\* evaluate_variations and end in main's 'except Exception'.
OracleExecute(raw) ==
    /\ pc = "oracle"
    /\ ~OracleDone(reference_results, test_cases)
    /\ LET input == OracleInput(reference_results, test_cases)
           o == ExecuteFunction(raw)
       IN IF o.raised
          THEN /\ pc' = "error"
               /\ UNCHANGED <<reference_results, baseline_ok, exec_log>>
          ELSE /\ reference_results' = Append(reference_results, ReferenceEntry(input, o))
               /\ baseline_ok' = Append(baseline_ok, o.success)
               /\ exec_log' = Append(exec_log, LogEntry(ValidatorName, -1, input, o))
               /\ pc' = pc
    /\ UNCHANGED <<validator, test_cases, validation_cases, workspaces,
                   version_results, results, best, warned, active_workspaces, live,
                   teardown, interrupted, arg, ret>>

CleanupPropagatesMutOnFailure(removed) == ~removed

\* Whether the teardown of the Validator workspace raises out of
\* validate_functions: cleanup_workspace catches the exception of
\* daytona_client.remove, and validate_functions wraps the call in a second try.
CleanupPropagates(removed) == FALSE

\* The end of validate_functions (cleanup_workspace swallows a failed
\* remove) and the check of its result in evaluate_variations.
ValidatorCleanup(removed) ==
    /\ pc = "oracle"
    /\ OracleDone(reference_results, test_cases)
    /\ teardown' = IF removed THEN "ok" ELSE "failed"
    /\ live' = IF removed THEN live \ {ValidatorName} ELSE live
    /\ active_workspaces' = RemoveFrom(active_workspaces, ValidatorName)
    /\ validation_cases' = IF CleanupPropagates(removed) THEN <<>> ELSE reference_results
    /\ pc' = IF CleanupPropagates(removed) THEN "error"
             ELSE IF reference_results = <<>> THEN "done" ELSE "create"
    /\ UNCHANGED <<validator, test_cases, reference_results, baseline_ok, workspaces,
                   version_results, results, best, warned, exec_log,
                   interrupted, arg, ret>>

\* The create task of the next version.
CreateWorkspace(out) ==
    /\ pc = "create"
    /\ Len(workspaces) < NumVersions
    /\ LET name == VersionName(Len(workspaces))
       IN /\ workspaces' = Append(workspaces, out)
          /\ active_workspaces' = Registered(active_workspaces, name, out)
          /\ live' = Created(live, name, out)
    /\ UNCHANGED <<pc, validator, test_cases, reference_results, baseline_ok,
                   validation_cases, version_results, results, best, warned, exec_log,
                   teardown, interrupted, arg, ret>>

CreateFailedMutIgnored(ws) == FALSE

\* asyncio.gather(*create_tasks) raises: some create task raised.
CreateFailed(ws) == \E i \in 1 .. Len(ws) : ws[i] # "ok"

\* 'workspaces = await asyncio.gather(*create_tasks)' and its except clause.
CreateGathered ==
    /\ pc = "create"
    /\ Len(workspaces) = NumVersions
    /\ pc' = IF CreateFailed(workspaces) THEN "done" ELSE "test"
    /\ UNCHANGED <<validator, test_cases, reference_results, baseline_ok,
                   validation_cases, workspaces, version_results, results, best,
                   warned, active_workspaces, live, exec_log,
                   teardown, interrupted, arg, ret>>

ReportCompleteMutStopOnFailure(r) ==
    \/ Len(r.test_results) = Len(validation_cases)
    \/ (r.test_results # <<>> /\ ~r.test_results[Len(r.test_results)].success)

\* The report the running test task works on is complete.
ReportComplete(r) == Len(r.test_results) = Len(validation_cases)

AllTested ==
    /\ Len(version_results) = NumVersions
    /\ ReportComplete(version_results[NumVersions])

\* One iteration of the loop of test_version, in the task that is running:
\* a task starts when the task before it has returned.  An exception that
\* execute_function let through would make asyncio.gather(*test_tasks) raise
\* and evaluate_variations return [].
TestCase(raw) ==
    /\ pc = "test"
    /\ ~AllTested
    /\ LET starting == version_results = <<>>
                       \/ ReportComplete(version_results[Len(version_results)])
           v == IF starting THEN Len(version_results) ELSE Len(version_results) - 1
           report == IF starting THEN NewReport(VersionName(v))
                     ELSE version_results[Len(version_results)]
           case == validation_cases[Len(report.test_results) + 1]
           o == ExecuteFunction(raw)
           after == RecordCase(report, case.input, case.expected, o)
       IN IF o.raised
          THEN /\ pc' = "done"
               /\ UNCHANGED <<version_results, exec_log>>
          ELSE /\ version_results' = IF starting THEN Append(version_results, after)
                                     ELSE [version_results EXCEPT ![Len(version_results)] = after]
               /\ exec_log' = Append(exec_log, LogEntry(TaskWorkspace(v), v, case.input, o))
               /\ pc' = pc
    /\ UNCHANGED <<validator, test_cases, reference_results, baseline_ok,
                   validation_cases, workspaces, results, best, warned,
                   active_workspaces, live,
                   teardown, interrupted, arg, ret>>

GatherResultsMutDropFailed(vr) == SelectSeq(vr, LAMBDA r : r.successes > 0)

\* results = await asyncio.gather(*test_tasks)
GatherResults(vr) == vr

\* evaluate_variations returns; main sorts, prints and selects the best.
ReportResults ==
    /\ pc = "test"
    /\ AllTested
    /\ LET returned == GatherResults(version_results)
       IN IF returned = <<>>
          THEN /\ results' = returned
               /\ pc' = "done"
               /\ UNCHANGED <<best, warned>>
          ELSE /\ results' = SortResults(returned)
               /\ best' = SelectBestVersion(results')
               /\ warned' = (best'.successes < Len(best'.test_results))
               /\ pc' = "prompt"
    /\ UNCHANGED <<validator, test_cases, reference_results, baseline_ok,
                   validation_cases, workspaces, version_results,
                   active_workspaces, live, exec_log,
                   teardown, interrupted, arg, ret>>

\* The answer to "Clean up workspaces? (y/n)"; failing is the set of
\* workspaces whose remove raises.
CleanupPrompt(yes, failing) ==
    /\ pc = "prompt"
    /\ IF yes
       THEN /\ live' = {w \in live : w \in failing
                                     \/ \A i \in 1 .. Len(active_workspaces) :
                                            active_workspaces[i] # w}
            /\ active_workspaces' = <<>>
       ELSE /\ failing = {}
            /\ UNCHANGED <<live, active_workspaces>>
    /\ pc' = "done"
    /\ UNCHANGED <<validator, test_cases, reference_results, baseline_ok,
                   validation_cases, workspaces, version_results, results, best,
                   warned, exec_log,
                   teardown, interrupted, arg, ret>>

\* signal_handler: SIGINT ends the process with sys.exit(0).
Interrupt ==
    /\ pc \in {"validate", "oracle", "create", "test", "prompt"}
    /\ pc' = "exited"
    /\ interrupted' = TRUE
    /\ UNCHANGED <<validator, test_cases, reference_results, baseline_ok,
                   validation_cases, workspaces, version_results, results, best,
                   warned, active_workspaces, live, exec_log,
                   teardown, arg, ret>>

Next ==
    \/ \E out \in CreateOutcomes, n \in 1 .. MaxCases : ValidatorCreate(out, n)
    \/ \E raw \in RawResponses : OracleExecute(raw)
    \/ \E removed \in BOOLEAN : ValidatorCleanup(removed)
    \/ \E out \in CreateOutcomes : CreateWorkspace(out)
    \/ CreateGathered
    \/ \E raw \in RawResponses : TestCase(raw)
    \/ ReportResults
    \/ \E yes \in BOOLEAN, failing \in SUBSET {VersionName(i) : i \in Versions} :
           CleanupPrompt(yes, failing)
    \/ Interrupt

Spec == Init /\ [][Next]_vars

\* A SIGINT delivered while the 'finally' of execute_function removes the
\* local test file: signal_handler raises SystemExit inside
\* 'try: os.remove(...) / except: pass', which swallows it, and the run goes on.
SwallowedInterrupt ==
    /\ \/ (pc = "oracle" /\ reference_results # <<>>)
       \/ (pc = "test" /\ version_results # <<>>)
    /\ ~interrupted
    /\ interrupted' = TRUE
    /\ UNCHANGED <<pc, validator, test_cases, reference_results, baseline_ok,
                   validation_cases, workspaces, version_results, results, best,
                   warned, active_workspaces, live, exec_log, teardown, arg, ret>>

NextSigint ==
    \/ Next
    \/ SwallowedInterrupt

\* The run, with the SIGINTs that arrive during the removal of a local test file.
SpecSigint == Init /\ [][NextSigint]_vars

\* ------------------------------------------------------------------
\* generate_test_cases as a function of the source it is given
\* ------------------------------------------------------------------

\* The largest number of parameters of the functions considered.
MaxParams == 2

\* The keywords looked for in str(param_type).lower(), in the order of the
\* if / elif chain.
KeywordOrder == <<"int", "float", "str", "list", "bool", "dict", "set">>

Keywords == {KeywordOrder[k] : k \in 1 .. Len(KeywordOrder)}

\* A lowercased annotation, reduced to the set of keywords that occur in it
\* as substrings ({} for a parameter without annotation: 'typing.any').
Annotations == {{}} \cup {{a, b} : a, b \in Keywords}

\* A parameter: its annotation and the list param_default ([] or [default]).
Params == [ann : Annotations, param_default : {<<>>, <<"7">>}]

ParamLists == UNION {[1 .. n -> Params] : n \in 0 .. MaxParams}

\* function_code, reduced to what generate_test_cases reads of it: how
\* exec(function_code) ends, whether a callable is found in the namespace,
\* and the parameters of its signature.
FunctionSources ==
    {[exec |-> x, found |-> f, params |-> <<>>] :
        x \in {"syntax_error", "system_exit"}, f \in {FALSE}}
    \cup {[exec |-> "ok", found |-> FALSE, params |-> <<>>]}
    \cup {[exec |-> "ok", found |-> TRUE, params |-> p] : p \in ParamLists}

\* The branch of the if / elif chain taken for an annotation.
TypeCategory(ann) ==
    LET hits == {k \in 1 .. Len(KeywordOrder) : KeywordOrder[k] \in ann}
    IN  IF hits = {} THEN "any"
        ELSE KeywordOrder[CHOOSE k \in hits : \A j \in hits : k <= j]

\* The literal values of each branch, written as Python source text.
Pool(category) ==
    CASE category = "int" -> <<"0", "1", "-1", "9999", "-9999">>
      [] category = "float" -> <<"0.0", "1.0", "-1.0", "3.14159", "inf", "-inf">>
      [] category = "str" -> <<"''", "'a'", "'test'", "'long'*100", "' '",
                                "'!@#$%^&*()_+'", "'123abc'">>
      [] category = "list" -> <<"[]", "[1]", "[1, 2, 3]", "list(range(100))">>
      [] category = "bool" -> <<"True", "False">>
      [] category = "dict" -> <<"{}", "{'key': 'value'}", "{1: 'one', 2: 'two'}",
                                 "{i: i for i in range(10)}">>
      [] category = "set" -> <<"set()", "{1, 2, 3}", "{i for i in range(10)}">>
      [] OTHER -> <<"None", "0", "1", "5">>

\* A parameter without default is given the default 0.
BaseCasesMutDefaultZero(param) ==
    (IF param.param_default = <<>> THEN <<"0">> ELSE param.param_default)
    \o Pool(TypeCategory(param.ann))

\* The entry of base_cases of a parameter.
BaseCases(param) == param.param_default \o Pool(TypeCategory(param.ann))

\* seq[:n]
Take(seq, n) == SubSeq(seq, 1, IF Len(seq) < n THEN Len(seq) ELSE n)

RECURSIVE ProductMutFirstFastest(_)
\* The first pool varies fastest.
ProductMutFirstFastest(pools) ==
    IF pools = <<>> THEN << <<>> >>
    ELSE LET h == Head(pools)
             rest == ProductMutFirstFastest(Tail(pools))
         IN  [n \in 1 .. (Len(h) * Len(rest)) |->
                 <<h[((n - 1) % Len(h)) + 1]>> \o rest[((n - 1) \div Len(h)) + 1]]

RECURSIVE Product(_)
\* list(itertools.product(*pools)): the last pool varies fastest.
Product(pools) ==
    IF pools = <<>> THEN << <<>> >>
    ELSE LET h == Head(pools)
             rest == Product(Tail(pools))
         IN  [n \in 1 .. (Len(h) * Len(rest)) |->
                 <<h[((n - 1) \div Len(rest)) + 1]>> \o rest[((n - 1) % Len(rest)) + 1]]

\* The minimal fallback cases.
FallbackCases == << <<"0">>, <<"1">>, <<"5">> >>

OnSynthesisErrorMutRaise == [raised |-> TRUE, cases |-> <<>>]

\* The 'except Exception' clause of generate_test_cases.
OnSynthesisError == [raised |-> FALSE, cases |-> FallbackCases]

\* generate_test_cases(function_code). A SyntaxError of exec and the
\* ValueError for a missing function are Exceptions; a SystemExit raised by
\* the executed source is not and leaves the function.
generate_test_cases(function_code) ==
    IF function_code.exec = "system_exit" THEN [raised |-> TRUE, cases |-> <<>>]
    ELSE IF function_code.exec = "syntax_error" \/ ~function_code.found
    THEN OnSynthesisError
    ELSE LET params == function_code.params
             base_cases == [i \in 1 .. Len(params) |-> BaseCases(params[i])]
         IN  [raised |-> FALSE,
              cases |-> IF Len(params) = 1
                        THEN LET first == Take(base_cases[1], 6)
                             IN  [i \in 1 .. Len(first) |-> <<first[i]>>]
                        ELSE Take(Product([i \in 1 .. Len(params) |->
                                              Take(base_cases[i], 3)]), 8)]

\* The variables of the run.
runVars == <<pc, validator, test_cases, reference_results, baseline_ok,
             validation_cases, workspaces, version_results, results, best,
             warned, active_workspaces, live, exec_log, teardown, interrupted>>

\* Before the run: nothing created, nothing executed.
RunIdle ==
    /\ pc = "validate"
    /\ validator = "none"
    /\ test_cases = <<>>
    /\ reference_results = <<>>
    /\ baseline_ok = <<>>
    /\ validation_cases = <<>>
    /\ workspaces = <<>>
    /\ version_results = <<>>
    /\ results = <<>>
    /\ best = NoReport
    /\ warned = FALSE
    /\ active_workspaces = <<>>
    /\ live = {}
    /\ exec_log = <<>>
    /\ teardown = "none"
    /\ interrupted = FALSE

InitGen ==
    /\ RunIdle
    /\ arg \in FunctionSources
    /\ ret = [done |-> FALSE]

\* The call generate_test_cases(original_function) of validate_functions.
Synthesize ==
    /\ ~ret.done
    /\ ret' = [done |-> TRUE,
               raised |-> generate_test_cases(arg).raised,
               cases |-> generate_test_cases(arg).cases]
    /\ UNCHANGED <<runVars, arg>>

NextGen == Synthesize

\* generate_test_cases applied to every source of FunctionSources.
SpecGen == InitGen /\ [][NextGen]_vars

\* ------------------------------------------------------------------
\* The comparator of test_version on pairs of successful outputs
\* ------------------------------------------------------------------

FloatV(whole, frac, str) == [ty |-> "float", w |-> whole, f |-> frac, s |-> str]
BoolV(b, str) == [ty |-> "bool", w |-> b, f |-> 0, s |-> str]
StrV(str) == [ty |-> "str", w |-> 0, f |-> 0, s |-> str]
ContainerV(type, str) == [ty |-> type, w |-> 0, f |-> 0, s |-> str]

\* Values eval() can yield from a printed result: numbers within and beyond
\* epsilon of 1, strings that differ by case and blanks, strings that print
\* like a value of another type, and containers.
CmpValues ==
    {NoneV, IntV(1, "1"), IntV(2, "2"),
     FloatV(1, 0, "1.0"), FloatV(1, 5, "1.0000000005"), FloatV(1, 20, "1.000000002"),
     BoolV(1, "True"),
     StrV("1"), StrV("a"), StrV("A "), StrV("True"), StrV("[1]"), StrV("(1,)"),
     ContainerV("list", "[1]"), ContainerV("list", "[2]"),
     ContainerV("tuple", "(1,)"),
     ContainerV("dict", "{1: 2}"), ContainerV("set", "{1}")}

InitCmp ==
    /\ RunIdle
    /\ arg \in [result : CmpValues, expected : CmpValues]
    /\ ret = [done |-> FALSE]

\* The comparison of one iteration of test_version whose execution succeeded.
Compare ==
    /\ ~ret.done
    /\ ret' = [done |-> TRUE,
               output_valid |-> OutputValid(TRUE, arg.result, arg.expected)]
    /\ UNCHANGED <<runVars, arg>>

NextCmp == Compare

\* The comparator applied to every pair of CmpValues.
SpecCmp == InitCmp /\ [][NextCmp]_vars

----------------------------------------------------------------------------
(* Properties.                                                             *)

\* The execute_function calls made in workspace name, in order.
ExecsOf(name) == SelectSeq(exec_log, LAMBDA e : e.ws = name)

\* The create task of some version raised.
SomeDeploymentFailed == \E i \in 1 .. Len(workspaces) : workspaces[i] # "ok"

\* The number of oracle cases.
OracleSize == Len(validation_cases)

RECURSIVE CountedTime(_)
\* The sum of the times of the matched entries whose expected output is not None.
CountedTime(entries) ==
    IF entries = <<>> THEN 0
    ELSE (IF Head(entries).success /\ Head(entries).expected # NoneV
          THEN Head(entries).time ELSE 0) + CountedTime(Tail(entries))

\* The scoring rule of the comparator, on the raw outcome of an execution.
ScoredAsMatch(exec, expected) ==
    \/ (expected = NoneV /\ ~exec.success)
    \/ (expected # NoneV /\ exec.success /\ Equivalent(exec.result, expected))

\* C1: in every report, a case is marked as a match and counted in successes
\* iff the oracle expects a failure and the execution failed, or the oracle
\* expects a value, the execution succeeded and its output is equivalent to
\* that value.
C1_MatchIffRule ==
    \A k \in 1 .. Len(version_results) :
        LET r == version_results[k]
            ex == ExecsOf(r.id)
            idx == 1 .. Len(r.test_results)
        IN /\ Len(ex) = Len(r.test_results)
           /\ \A j \in idx :
                  r.test_results[j].success <=> ScoredAsMatch(ex[j], r.test_results[j].expected)
           /\ r.successes =
                  Cardinality({j \in idx : ScoredAsMatch(ex[j], r.test_results[j].expected)})

\* A report with a case that succeeded where the baseline failed (not
\* counted), and a case that matched a value of the baseline (counted).
C1_Witness ==
    \E k \in 1 .. Len(version_results) :
        LET r == version_results[k]
            ex == ExecsOf(r.id)
        IN /\ Len(r.test_results) = 2
           /\ r.test_results[1].expected = NoneV
           /\ ex[1].success
           /\ ~r.test_results[1].success
           /\ r.test_results[2].expected # NoneV
           /\ ex[2].success
           /\ r.test_results[2].success
           /\ r.successes = 1

\* C2: no version workspace is created and no version case is executed
\* before validate_functions has returned the oracle table with one entry
\* for every generated test case.
C2_OracleBarrier ==
    (\/ workspaces # <<>>
     \/ version_results # <<>>
     \/ \E i \in 1 .. Len(exec_log) : exec_log[i].ws # ValidatorName)
    => /\ Len(test_cases) >= 1
       /\ Len(validation_cases) = Len(test_cases)
       /\ \A i \in 1 .. Len(test_cases) : validation_cases[i].input = test_cases[i]

\* The first version workspace has been created for an oracle of two cases.
C2_Witness ==
    /\ pc = "create"
    /\ Len(workspaces) = 1
    /\ Len(test_cases) = 2

\* C3: when some report has successes = n, the selected report is fully
\* correct and no fully-correct report has a smaller total_time.
C3_FastestFullyCorrect ==
    (best # NoReport /\ \E i \in 1 .. Len(results) : results[i].successes = OracleSize)
    => /\ \E i \in 1 .. Len(results) : results[i] = best
       /\ best.successes = OracleSize
       /\ \A i \in 1 .. Len(results) :
              results[i].successes = OracleSize => best.total_time <= results[i].total_time

\* A fully-correct winner beside a partly-correct report with a smaller total_time.
C3_Witness ==
    /\ best # NoReport
    /\ best.successes = OracleSize
    /\ \E i \in 1 .. Len(results) :
           /\ results[i].successes < OracleSize
           /\ results[i].total_time < best.total_time

\* C4: when no report has successes = n, the selected report has the largest
\* successes and, among the reports with that many, the least total_time;
\* the warning is printed exactly when the winner failed some of its cases.
C4_PartialFallback ==
    best # NoReport
    => /\ (\A i \in 1 .. Len(results) : results[i].successes # OracleSize)
          => /\ \E i \in 1 .. Len(results) : results[i] = best
             /\ \A i \in 1 .. Len(results) :
                    /\ results[i].successes <= best.successes
                    /\ results[i].successes = best.successes
                           => best.total_time <= results[i].total_time
       /\ warned <=> (best.successes < Len(best.test_results))

\* No report is fully correct and two reports tie on successes with
\* different total_time.
C4_Witness ==
    /\ best # NoReport
    /\ warned
    /\ \A i \in 1 .. Len(results) : results[i].successes < OracleSize
    /\ \E i, j \in 1 .. Len(results) :
           /\ results[i].successes = results[j].successes
           /\ results[i].total_time < results[j].total_time

\* C5: an oracle entry has expected output None only if the baseline
\* execution failed on that input.
C5_NoneOnlyOnFailure ==
    \A i \in 1 .. Len(reference_results) :
        reference_results[i].expected = NoneV => ~baseline_ok[i]

\* C6: every case on which the baseline execution failed is stored with
\* expected output None.
C6_FailureStoredAsNone ==
    /\ Len(baseline_ok) = Len(reference_results)
    /\ \A i \in 1 .. Len(reference_results) :
           ~baseline_ok[i] => reference_results[i].expected = NoneV
    /\ \A i \in 1 .. Len(validation_cases) :
           ~baseline_ok[i] => validation_cases[i].expected = NoneV

\* The oracle was returned with a case on which the baseline failed.
C6_Witness ==
    /\ validation_cases # <<>>
    /\ \E i \in 1 .. Len(validation_cases) : ~baseline_ok[i]

\* C7: at every point of a run, total_time of a report is the sum of the
\* times of its matched cases whose expected output is not None.
C7_LatencyCounted ==
    \A k \in 1 .. Len(version_results) :
        version_results[k].total_time = CountedTime(version_results[k].test_results)

\* A report with an expected-failure case the version also failed and a
\* case with a value that the version ran (in non-zero time) without matching.
C7_Witness ==
    \E k \in 1 .. Len(version_results) :
        LET r == version_results[k]
        IN \E i, j \in 1 .. Len(r.test_results) :
               /\ r.test_results[i].expected = NoneV
               /\ r.test_results[i].success
               /\ r.test_results[j].expected # NoneV
               /\ ~r.test_results[j].success
               /\ r.test_results[j].time > 0
               /\ r.successes = 1
               /\ r.total_time = 0

\* The report of version v in results, if any.
ReportsOf(v) == {k \in 1 .. Len(results) : results[k].id = VersionName(v)}

C10_OracleFailureAborts ==
    validator \in {"create_failed", "deploy_failed"}
    => /\ pc = "error"
       /\ workspaces = <<>>
       /\ version_results = <<>>
       /\ exec_log = <<>>
       /\ results = <<>>
       /\ best = NoReport

\* The deployment of the baseline into the Validator workspace failed.
C10_Witness ==
    /\ validator = "deploy_failed"
    /\ pc = "error"

\* An execute_function call answered by an exception of the sandbox.
IsTransportError(e) == e.result = TransportErrV

\* C11: a sandbox error in an execution is returned as success = false with
\* the error text as output; it never ends the run: the oracle build goes on,
\* and when every version deployed, every version executes all its cases.
C11_TransportErrorAbsorbed ==
    /\ \A i \in 1 .. Len(exec_log) : IsTransportError(exec_log[i]) => ~exec_log[i].success
    /\ pc = "error" => validator # "ok"
    /\ (pc \in {"create", "test", "prompt", "done"} /\ validator = "ok")
       => Len(ExecsOf(ValidatorName)) = Len(test_cases)
    /\ (pc \in {"prompt", "done"} /\ validator = "ok" /\ ~SomeDeploymentFailed)
       => /\ Len(results) = NumVersions
          /\ \A v \in Versions : Len(ExecsOf(VersionName(v))) = OracleSize

\* The run ended although the first execution of the original raised a
\* sandbox error: its second case and the cases of the variation were run.
C11_Witness ==
    /\ pc = "done"
    /\ OracleSize = 2
    /\ Len(ExecsOf(VersionName(0))) = 2
    /\ IsTransportError(ExecsOf(VersionName(0))[1])
    /\ Len(ExecsOf(VersionName(1))) = 2
    /\ Len(results) = NumVersions

\* C12: when evaluate_variations has returned, every report has one entry
\* per oracle case and the inputs of the entries are the generated test
\* inputs, in order.
C12_SameInputs ==
    pc \in {"prompt", "done"}
    => \A k \in 1 .. Len(results) :
           /\ Len(results[k].test_results) = Len(test_cases)
           /\ \A j \in 1 .. Len(test_cases) :
                  /\ results[k].test_results[j].input = test_cases[j]
                  /\ results[k].test_results[j].input = validation_cases[j].input

\* The reports are complete although the original did not match its first case.
C12_Witness ==
    /\ pc = "prompt"
    /\ Len(test_cases) = 2
    /\ \E k \in 1 .. Len(results) :
           /\ results[k].id = VersionName(0)
           /\ ~results[k].test_results[1].success
           /\ Len(results[k].test_results) = 2

\* Every test task but the one started last has returned.
StrictlySequential ==
    \A k \in 1 .. (Len(version_results) - 1) : ReportComplete(version_results[k])

\* C13: the test tasks of different versions run together: a task starts
\* while the task started before it has not yet returned (the tasks are not
\* run strictly one after another).
C13_TasksStartTogether ==
    [][(/\ pc = "test"
        /\ Len(version_results) >= 1
        /\ Len(version_results') = Len(version_results) + 1)
       => ~ReportComplete(version_results[Len(version_results)])]_vars

\* C14: every execution for a version runs in the workspace into which that
\* version's code was deployed, no workspace runs cases of two versions, each
\* version has one workspace, and the Validator workspace serves the oracle
\* build only.
C14_OwnEnvironment ==
    /\ \A i \in 1 .. Len(exec_log) :
           LET e == exec_log[i]
           IN /\ e.ws = ValidatorName <=> e.task = -1
              /\ e.task >= 0
                     => /\ e.ws.kind \in {"Original", "Version"}
                        /\ DeployedCode(e.ws) = e.task
                        /\ e.task + 1 <= Len(workspaces)
                        /\ workspaces[e.task + 1] = "ok"
    /\ \A i, j \in 1 .. Len(exec_log) :
           exec_log[i].ws = exec_log[j].ws => exec_log[i].task = exec_log[j].task
    /\ \A v \in Versions :
           Cardinality({i \in 1 .. Len(active_workspaces) :
                            active_workspaces[i] = VersionName(v)}) <= 1

\* Both versions and the oracle build have executed two cases each.
C14_Witness ==
    /\ OracleSize = 2
    /\ Len(ExecsOf(ValidatorName)) = 2
    /\ \A v \in Versions : Len(SelectSeq(exec_log, LAMBDA e : e.task = v)) = 2

\* C15: once a SIGINT has been delivered, no further execution and no
\* further deployment is issued.
C15_NothingAfterInterrupt ==
    [][interrupted => (exec_log' = exec_log /\ workspaces' = workspaces)]_vars

\* C16: the teardown of the Validator workspace is attempted before the first
\* version workspace is created and a removed Validator is gone by then; a
\* failed teardown raises nothing: the oracle table is returned complete and
\* the run goes on to deploy, test and report every version.
C16_TeardownBeforeVariants ==
    /\ workspaces # <<>> => teardown # "none"
    /\ teardown = "ok" => ValidatorName \notin live
    /\ teardown # "none"
       => /\ pc # "error"
          /\ validation_cases = reference_results
          /\ Len(validation_cases) = Len(test_cases)
    /\ (teardown = "failed" /\ pc \in {"prompt", "done"} /\ ~SomeDeploymentFailed)
       => /\ Len(results) = NumVersions
          /\ \A v \in Versions : Len(ExecsOf(VersionName(v))) = OracleSize

\* The Validator could not be removed, and the run still reported every
\* version on a two-case oracle.
C16_Witness ==
    /\ teardown = "failed"
    /\ ValidatorName \in live
    /\ pc = "prompt"
    /\ OracleSize = 2
    /\ Len(results) = NumVersions

\* The synthesis met an Exception: the source does not compile, or no
\* function is found in it.
SynthesisFailed(function_code) ==
    function_code.exec = "syntax_error"
    \/ (function_code.exec = "ok" /\ ~function_code.found)

\* C18: when the synthesis fails with an exception, generate_test_cases
\* raises nothing and returns the fallback cases (0,), (1,), (5,).
C18_FallbackOnFailure ==
    (ret.done /\ SynthesisFailed(arg))
    => /\ ~ret.raised
       /\ ret.cases = << <<"0">>, <<"1">>, <<"5">> >>

\* generate_test_cases returned three cases for a source in which no
\* function is found.
C18_Witness ==
    /\ ret.done
    /\ arg.exec = "ok"
    /\ ~arg.found
    /\ ~ret.raised
    /\ Len(ret.cases) = 3

\* The types for which the comparator has a rule of their own.
HasSpecificRule(v) == v.ty \in {"list", "dict", "set", "int", "float", "bool", "str"}

\* The rule of the comparator that a pair of values falls under.
PairRule(a, b) ==
    IF a.ty = b.ty /\ a.ty \in {"list", "dict", "set", "str"} THEN a.ty
    ELSE IF a.ty \in {"int", "float", "bool"} /\ b.ty \in {"int", "float", "bool"}
    THEN "numeric"
    ELSE "otherwise"

\* C19 as stated: two outputs of different types with the same string
\* representation, one of which has a type with a specific rule, are not
\* judged equivalent.
C19_DistinctTypesNotEquated ==
    (/\ ret.done
     /\ arg.expected # NoneV
     /\ arg.result.ty # arg.expected.ty
     /\ arg.result.s = arg.expected.s
     /\ (HasSpecificRule(arg.result) \/ HasSpecificRule(arg.expected)))
    => ~ret.output_valid

\* C19, amended: a pair of the same rule is judged by that rule (exact
\* equality of lists, dicts and sets, distance below epsilon for numbers,
\* trimmed case-insensitive equality for strings); every other pair, mixed
\* types included, is judged by equality of the string representations.
C19_RulePrecedence ==
    (ret.done /\ arg.expected # NoneV)
    => LET a == arg.result
           b == arg.expected
           rule == PairRule(a, b)
       IN  ret.output_valid
           = CASE rule \in {"list", "dict", "set"} -> a = b
               [] rule = "numeric" ->
                      /\ a.w = b.w
                      /\ a.f - b.f < Epsilon
                      /\ b.f - a.f < Epsilon
               [] rule = "str" ->
                      \/ a.s = b.s
                      \/ {a.s, b.s} \subseteq {"a", "A "}
               [] OTHER -> a.s = b.s

\* The number 1 returned where the string "1" is expected is judged a match.
C19_Witness ==
    /\ ret.done
    /\ arg.result = IntV(1, "1")
    /\ arg.expected = StrV("1")
    /\ ret.output_valid

\* C20: for two numbers the verdict does not depend on which of them is the
\* output and which the expected value.
C20_NumericCommutative ==
    (/\ ret.done
     /\ arg.result.ty \in {"int", "float", "bool"}
     /\ arg.expected.ty \in {"int", "float", "bool"})
    => ret.output_valid = OutputValid(TRUE, arg.expected, arg.result)

\* 1.000000002 against the expected 1 is judged a mismatch.
C20_Witness ==
    /\ ret.done
    /\ arg.result = FloatV(1, 20, "1.000000002")
    /\ arg.expected = IntV(1, "1")
    /\ ~ret.output_valid

\* C21: when several fully-correct reports share the least total_time, the
\* selected one is the first of them in the list given to select_best_version.
C21_FirstOfTies ==
    (best # NoReport /\ best.successes = OracleSize)
    => \E k \in 1 .. Len(results) :
           /\ results[k] = best
           /\ \A j \in 1 .. (k - 1) :
                  ~(/\ results[j].successes = OracleSize
                    /\ results[j].total_time = best.total_time)

\* Two fully-correct reports tie on a non-zero total_time and the first of
\* the list was selected.
C21_Witness ==
    /\ Len(results) = 2
    /\ results[1].successes = OracleSize
    /\ results[2].successes = OracleSize
    /\ results[1].total_time = results[2].total_time
    /\ results[1].total_time > 0
    /\ best = results[1]

\* The source defines a function of one parameter annotated int.
OneIntParameter(function_code) ==
    /\ function_code.exec = "ok"
    /\ function_code.found
    /\ Len(function_code.params) = 1
    /\ function_code.params[1].ann = {"int"}

\* C22 as stated: for f(x: int) generate_test_cases returns 6 cases.
C22_SixCasesForInt ==
    (ret.done /\ OneIntParameter(arg)) => Len(ret.cases) = 6

\* C22, amended: for f(x: int) generate_test_cases returns the 5 cases
\* 0, 1, -1, 9999, -9999, and for f(x: int = d) the 6 cases d, 0, 1, -1,
\* 9999, -9999.
C22_FiveOrSixCasesForInt ==
    (ret.done /\ OneIntParameter(arg))
    => /\ ~ret.raised
       /\ arg.params[1].param_default = <<>>
          => ret.cases = << <<"0">>, <<"1">>, <<"-1">>, <<"9999">>, <<"-9999">> >>
       /\ arg.params[1].param_default # <<>>
          => ret.cases = << <<arg.params[1].param_default[1]>>,
                            <<"0">>, <<"1">>, <<"-1">>, <<"9999">>, <<"-9999">> >>

\* f(x: int) without a default was given 5 cases.
C22_Witness ==
    /\ ret.done
    /\ OneIntParameter(arg)
    /\ arg.params[1].param_default = <<>>
    /\ Len(ret.cases) = 5

\* C23: at every moment of the test phase and after it, the entries of the
\* report of a version are exactly the executions issued by the task of that
\* version in its workspace, in order, and entry j pairs the outcome of the
\* j-th execution with the input and expected output of oracle case j.
C23_OutcomeInOwnReport ==
    /\ \A k \in 1 .. Len(version_results) :
           LET r == version_results[k]
               ex == ExecsOf(r.id)
           IN  /\ r.id = VersionName(k - 1)
               /\ Len(r.test_results) = Len(ex)
               /\ \A j \in 1 .. Len(ex) :
                      /\ ex[j].task = k - 1
                      /\ r.test_results[j].output = ex[j].result
                      /\ r.test_results[j].input = ex[j].input
                      /\ r.test_results[j].input = validation_cases[j].input
                      /\ r.test_results[j].expected = validation_cases[j].expected
    /\ \A k \in 1 .. Len(results) :
           \E i \in 1 .. Len(version_results) : results[k] = version_results[i]

\* Both versions are reported on two cases, and the second output of the
\* variation differs from both outputs of the original.
C23_Witness ==
    /\ pc = "prompt"
    /\ Len(version_results) = 2
    /\ Len(version_results[2].test_results) = 2
    /\ version_results[2].test_results[2].output # version_results[1].test_results[2].output
    /\ version_results[2].test_results[2].output # version_results[1].test_results[1].output
    /\ version_results[2].test_results[2].output = ExecsOf(VersionName(1))[2].result

\* The number of entries marked success.
SuccessEntries(entries) == Cardinality({j \in 1 .. Len(entries) : entries[j].success})

\* C24: in every state, interrupted runs included, the successes of every
\* report equal the number of its entries marked success and do not exceed
\* the number of entries, which does not exceed the number of oracle cases.
C24_SuccessCountConsistent ==
    /\ \A k \in 1 .. Len(version_results) :
           LET r == version_results[k]
           IN  /\ r.successes = SuccessEntries(r.test_results)
               /\ r.successes <= Len(r.test_results)
               /\ Len(r.test_results) <= OracleSize
    /\ \A k \in 1 .. Len(results) :
           LET r == results[k]
           IN  /\ r.successes = SuccessEntries(r.test_results)
               /\ r.successes <= Len(r.test_results)
               /\ Len(r.test_results) <= OracleSize

\* The run was interrupted while the variation had executed one of its two
\* cases: an expected failure that failed and was counted.
C24_Witness ==
    /\ pc = "exited"
    /\ OracleSize = 2
    /\ Len(version_results) = 2
    /\ Len(version_results[2].test_results) = 1
    /\ version_results[2].test_results[1].expected = NoneV
    /\ version_results[2].successes = 1

\* The source defines a function with at least one parameter.
HasParameters(function_code) ==
    /\ function_code.exec = "ok"
    /\ function_code.found
    /\ Len(function_code.params) >= 1

Smaller(a, b) == IF a < b THEN a ELSE b

RECURSIVE Combinations(_, _)
\* The number of tuples that the pools i, i + 1, ... of sizes lims form.
Combinations(lims, i) ==
    IF i > Len(lims) THEN 1 ELSE lims[i] * Combinations(lims, i + 1)

\* C25: for one parameter the cases are the first 6 values of its pool
\* (default first) as 1-tuples; for more parameters they are the first 8
\* tuples, the last parameter varying fastest, of the product of the first 3
\* values of each pool; every tuple has one component per parameter.
C25_CasesFromPools ==
    (ret.done /\ HasParameters(arg))
    => LET arity == Len(arg.params)
           pools == [i \in 1 .. arity |->
                        arg.params[i].param_default \o Pool(TypeCategory(arg.params[i].ann))]
           lims == [i \in 1 .. arity |-> Smaller(3, Len(pools[i]))]
       IN  /\ ~ret.raised
           /\ \A n \in 1 .. Len(ret.cases) : Len(ret.cases[n]) = arity
           /\ arity = 1
              => /\ Len(ret.cases) = Smaller(6, Len(pools[1]))
                 /\ \A n \in 1 .. Len(ret.cases) : ret.cases[n] = <<pools[1][n]>>
           /\ arity > 1
              => /\ Len(ret.cases) = Smaller(8, Combinations(lims, 1))
                 /\ \A n \in 1 .. Len(ret.cases) : \A i \in 1 .. arity :
                        ret.cases[n][i]
                        = pools[i][(((n - 1) \div Combinations(lims, i + 1)) % lims[i]) + 1]

\* Two parameters with pools of three or more values: 8 of the 9 tuples.
C25_Witness ==
    /\ ret.done
    /\ HasParameters(arg)
    /\ Len(arg.params) = 2
    /\ arg.params[1].ann = {"int"}
    /\ arg.params[2].ann = {"str"}
    /\ arg.params[2].param_default # <<>>
    /\ Len(ret.cases) = 8
    /\ ret.cases[8] = <<"-1", "''">>

\* The category of the first keyword, in the order int, float, str, list,
\* dict, set, bool, that occurs in the annotation.
CategoryInStatedOrder(ann) ==
    LET order == <<"int", "float", "str", "list", "dict", "set", "bool">>
        hits == {k \in 1 .. Len(order) : order[k] \in ann}
    IN  IF hits = {} THEN "any"
        ELSE order[CHOOSE k \in hits : \A j \in hits : k <= j]

\* C26: the pool used for a parameter is that of the first keyword, in the
\* order int, float, str, list, dict, set, bool, that occurs in its lowercased
\* annotation, and the generic pool when none occurs (read off the cases
\* returned for a function of one parameter).
C26_StatedPriorityOrder ==
    (ret.done /\ HasParameters(arg) /\ Len(arg.params) = 1)
    => LET pool == arg.params[1].param_default
                   \o Pool(CategoryInStatedOrder(arg.params[1].ann))
       IN  \A n \in 1 .. Len(ret.cases) :
               n <= Len(pool) /\ ret.cases[n] = <<pool[n]>>

\* C27: the Validator workspace is registered at most once; the baseline
\* executions are issued on the test cases in their order, and entry j of the
\* oracle table holds test case j with the output of the j-th execution when
\* it succeeded and None when it failed; the table validate_functions
\* returns has one entry for every test case, failed cases or not.
C27_OracleBuiltInOrder ==
    LET ex == ExecsOf(ValidatorName)
    IN  /\ Cardinality({i \in 1 .. Len(active_workspaces) :
                            active_workspaces[i] = ValidatorName}) <= 1
        /\ Len(ex) = Len(reference_results)
        /\ Len(ex) <= Len(test_cases)
        /\ \A j \in 1 .. Len(ex) :
               /\ ex[j].input = test_cases[j]
               /\ reference_results[j].input = test_cases[j]
               /\ reference_results[j].expected
                  = (IF ex[j].success THEN ex[j].result ELSE NoneV)
        /\ teardown # "none"
           => /\ validation_cases = reference_results
              /\ Len(validation_cases) = Len(test_cases)

\* The baseline failed on the first of two cases and returned 1 on the
\* second; the table was returned with both entries.
C27_Witness ==
    /\ teardown # "none"
    /\ Len(validation_cases) = 2
    /\ ~ExecsOf(ValidatorName)[1].success
    /\ validation_cases[1].expected = NoneV
    /\ ExecsOf(ValidatorName)[2].success
    /\ validation_cases[2].expected = IntV(1, "1")

\* C28: an execution of a version that ended in a sandbox error is scored as
\* a match, and counted in successes, exactly when the oracle expects a
\* failure for the case.
C28_TransportErrorScoredAsFailure ==
    \A k \in 1 .. Len(version_results) :
        LET r == version_results[k]
            ex == ExecsOf(VersionName(k - 1))
        IN  /\ r.successes = SuccessEntries(r.test_results)
            /\ \A j \in 1 .. Len(r.test_results) :
                   (j <= Len(ex) /\ IsTransportError(ex[j]))
                   => /\ r.test_results[j].success = (r.test_results[j].expected = NoneV)
                      /\ r.test_results[j].time = 0

\* The variation met a sandbox error on an expected failure and on a case
\* with an expected value: one success.
C28_Witness ==
    /\ Len(version_results) = 2
    /\ Len(version_results[2].test_results) = 2
    /\ IsTransportError(ExecsOf(VersionName(1))[1])
    /\ IsTransportError(ExecsOf(VersionName(1))[2])
    /\ version_results[2].test_results[1].expected = NoneV
    /\ version_results[2].test_results[2].expected # NoneV
    /\ version_results[2].successes = 1

\* The executions of the original in its own workspace gave, case by case,
\* the success flag and the output the Validator workspace gave for the oracle.
BackendDeterministic ==
    LET oracle == ExecsOf(ValidatorName)
        own == ExecsOf(VersionName(0))
    IN  /\ Len(own) = Len(oracle)
        /\ \A j \in 1 .. Len(own) :
               /\ own[j].success = oracle[j].success
               /\ own[j].result = oracle[j].result

\* C29: when the backend is deterministic, the report of the original has
\* successes equal to the number of oracle cases and the selected report is
\* fully correct.
C29_BaselineFullyCorrect ==
    (pc = "prompt" /\ BackendDeterministic)
    => /\ \A k \in ReportsOf(0) : results[k].successes = OracleSize
       /\ ReportsOf(0) # {}
       /\ best.successes = OracleSize

\* With a deterministic backend the original is fully correct and so is the
\* selected report, provided no baseline execution succeeded with the
\* output None.
BaselineFullyCorrectUnlessNone ==
    (/\ pc = "prompt"
     /\ BackendDeterministic
     /\ \A j \in 1 .. Len(ExecsOf(ValidatorName)) :
            ~(ExecsOf(ValidatorName)[j].success /\ ExecsOf(ValidatorName)[j].result = NoneV))
    => /\ ReportsOf(0) # {}
       /\ \A k \in ReportsOf(0) : results[k].successes = OracleSize
       /\ best.successes = OracleSize

\* C30: every environment that was created and not successfully removed is
\* listed in active_workspaces.
C30_LiveIsListed ==
    \A w \in live : \E i \in 1 .. Len(active_workspaces) : active_workspaces[i] = w

\* Up to the first removal attempt every live environment is listed, one
\* whose deployment failed included.
LiveIsListedBeforeTeardown ==
    (teardown = "none" /\ pc # "done") => C30_LiveIsListed

====
